---- MODULE Spec2Model ----
\* chu: an error-aware adapter over the chi router (src/chu.go, src/adapter.go,
\* src/options.go).  The model keeps every router wrapper
\* (*chu.Router) with its errHandler, its routerBuilder and the registrations made
\* on its underlying router, and serves requests through the closures that
\* adapt, Use and AdaptHandler build.
EXTENDS Integers, Sequences, FiniteSets, TLC

VARIABLES
    routers,       \* Seq of wrappers (*Router); index = identity of the pointer
    open,          \* Group/Route configuration callbacks in progress (innermost last)
    panicked,      \* TRUE once a registration call panicked
    newOpts,       \* the options New was called with
    builderCalls,  \* log of construction-strategy invocations, in order
    req,           \* the request being served, NoReq between requests
    trace,         \* what ran while serving it, in order
    resp,          \* the response written for it
    flights        \* dispatches in progress side by side, each at its own step

vars == <<routers, open, panicked, newOpts, builderCalls, req, trace, resp, flights>>

----------------------------------------------------------------------------
\* Bounds

MaxRouters == 3
MaxRoutes == 2
MaxSets == 1
MaxOpts == 2
MaxChain == 3
MaxFlights == 2

----------------------------------------------------------------------------
\* Values

NoErr == "nil"
None == "none"
NilBuilder == "nil"

defaultErrorHandler == "defaultErrorHandler"
defaultRouterBuilder == "defaultRouterBuilder"

ErrorHandlers == {defaultErrorHandler, "eh1", "eh2"}
CustomErrorHandlers == ErrorHandlers \ {defaultErrorHandler}
Builders == {defaultRouterBuilder, "b1", "b2"}

Methods == {"GET", "POST", "PUT", "DELETE", "PATCH", "HEAD", "OPTIONS", "CONNECT", "TRACE"}
Patterns == {"/a", "/b"}
RootPattern == "/"

\* Handler values: what the user's function writes and what it returns.
Handlers ==
    { [id |-> "h1", writes |-> FALSE, err |-> "e1"],
      [id |-> "h2", writes |-> TRUE,  err |-> NoErr],
      [id |-> "h3", writes |-> TRUE,  err |-> "e2"],
      [id |-> "h4", writes |-> FALSE, err |-> NoErr] }

\* Middleware transforms func(Handler) Handler, by what the returned Handler does:
\*   "pass"      calls next and returns what next returned
\*   "ok"        calls next and returns nil
\*   "failAfter" calls next and then returns an error of its own
\*   "fail"      returns an error of its own without calling next
Middlewares ==
    { [name |-> "A", kind |-> "pass"],
      [name |-> "B", kind |-> "ok"],
      [name |-> "C", kind |-> "failAfter"],
      [name |-> "D", kind |-> "fail"] }
MwErr(name) ==
    CASE name = "A" -> "eA" [] name = "B" -> "eB" [] name = "C" -> "eC"
      [] OTHER -> "eD"

\* Conventional handlers func(w, r): "s1" answers 200, "s2" answers 500.
StdHandlers == {"s1", "s2"}

StandardHandlerReportsFailure(h) ==
    [id |-> h, writes |-> FALSE, err |-> IF h = "s2" THEN "e500" ELSE NoErr]

\* StandardHandler(h): the Handler that runs h(w, r) and returns nil.
StandardHandler(h) == [id |-> h, writes |-> FALSE, err |-> NoErr]

\* Conventional middleware func(http.Handler) http.Handler, by what the handler
\* it returns does with (w, r):
\*   "forward"    next.ServeHTTP(w, r)
\*   "forwardCtx" next.ServeHTTP(w, r.WithContext(ctx with a value attached))
\*   "wrap"       next.ServeHTTP(a writer wrapping w, r)
\*   "block"      answers 403 itself and does not forward
StdMiddlewares ==
    { [name |-> "S", kind |-> "forward"],
      [name |-> "T", kind |-> "forwardCtx"],
      [name |-> "V", kind |-> "wrap"],
      [name |-> "U", kind |-> "block"] }
StdMwOf(name) == CHOOSE m \in StdMiddlewares : m.name = name
StdForwards(m) == m.kind # "block"

\* Further transforms func(Handler) Handler:
\*   "ctxOnly"         calls next(ctx with a value attached, w, r), returns its result
\*   "withCtx"         calls next(ctx2, w, r.WithContext(ctx2)), returns its result
\*   "AdaptMiddleware" AdaptMiddleware(m) for the conventional middleware named
CtxMiddlewares ==
    { [name |-> "E", kind |-> "ctxOnly"],
      [name |-> "F", kind |-> "withCtx"] }
    \cup {[name |-> m.name, kind |-> "AdaptMiddleware"] : m \in StdMiddlewares}

CallsNext(mw) ==
    /\ mw.kind # "fail"
    /\ mw.kind = "AdaptMiddleware" => StdForwards(StdMwOf(mw.name))

\* The (w, r) pair a conventional handler is called with: the writer (the
\* wrappers put around the server's writer) and the context values r carries.
Incoming == [w |-> <<>>, ctx |-> {}]
WithContext(wr, ctx) == [wr EXCEPT !.ctx = ctx]
WithValue(ctx, v) == ctx \cup {v}

\* Option values given to New.
Option ==
    [kind : {"WithErrorHandler"}, val : CustomErrorHandlers]
    \cup [kind : {"WithRouterBuilder"}, val : Builders \ {defaultRouterBuilder}]

RECURSIVE SeqsUpTo(_, _)
SeqsUpTo(S, n) ==
    IF n = 0 THEN {<<>>}
    ELSE LET shorter == SeqsUpTo(S, n - 1)
         IN  shorter \cup {Append(s, x) : s \in {t \in shorter : Len(t) = n - 1}, x \in S}

----------------------------------------------------------------------------
\* The response writer (net/http): the first WriteHeader wins, a Write sends an
\* implicit 200 first, the body only grows.

EmptyResp == [status |-> 0, body |-> <<>>]

WriteHeader(w, code) == IF w.status = 0 THEN [w EXCEPT !.status = code] ELSE w

Write(w, tok) == [WriteHeader(w, 200) EXCEPT !.body = Append(@, tok)]

\* http.Error(w, msg, code): WriteHeader(code), then the message and a newline.
HttpError(w, msg, code) == Write(Write(WriteHeader(w, code), msg), "\n")

\* One entry of the trace of a request.
Ev(ev, who, err, by, at, tag) ==
    [ev |-> ev, who |-> who, err |-> err, by |-> by, at |-> at, tag |-> tag,
     ctx |-> None, rctx |-> None, w |-> None]

\* An entry for a call made with (ctx, w, r): the context argument, the context
\* r carries and the writer.
EvCall(e, ctx, wr) == [e EXCEPT !.ctx = ctx, !.rctx = wr.ctx, !.w = wr.w]

Log(st, e) == [st EXCEPT !.trace = Append(@, e)]

ErrorHandlerWritesNoNewline(eh, w, err) ==
    IF eh = defaultErrorHandler
    THEN Write(WriteHeader(w, 500), err)
    ELSE Write(Write(Write(WriteHeader(w, 400), eh), err), "\n")

\* Calling an ErrorHandler value with (w, req, err); defaultErrorHandler is
\* http.Error(w, err.Error(), http.StatusInternalServerError).
ErrorHandlerWrites(eh, w, err) ==
    IF eh = defaultErrorHandler
    THEN HttpError(w, err, 500)
    ELSE Write(Write(Write(WriteHeader(w, 400), eh), err), "\n")

CallErrorHandler(eh, st, err, by, tag) ==
    [resp  |-> ErrorHandlerWrites(eh, st.resp, err),
     trace |-> Append(st.trace,
                  Ev("errHandler", eh, err, by, Len(st.resp.body), tag))]

\* Calling a conventional handler value with (w, r); "s2" answers 500 itself.
CallStd(s, wr, st) ==
    [resp  |-> Write(WriteHeader(st.resp, IF s = "s2" THEN 500 ELSE 200), s),
     trace |-> Append(st.trace,
                  EvCall(Ev("std", s, NoErr, 0, Len(st.resp.body), None), wr.ctx, wr))]

\* Calling a Handler value with (ctx, w, r): its writes, and the error it
\* returns.  The Handler made by StandardHandler calls its conventional handler.
CallHandler(h, ctx, wr, st) ==
    LET s1 == [resp  |-> IF h.writes THEN Write(WriteHeader(st.resp, 200), h.id)
                         ELSE st.resp,
               trace |-> Append(st.trace,
                            EvCall(Ev("handler", h.id, h.err, 0, Len(st.resp.body), None),
                                   ctx, wr))]
    IN  [st  |-> IF h.id \in StdHandlers THEN CallStd(h.id, wr, s1) ELSE s1,
         err |-> h.err]

----------------------------------------------------------------------------
\* Registrations held by an underlying router

NoHandler == [id |-> None, writes |-> FALSE, err |-> NoErr]

\* A conventional handler made by Router.adapt: the closure holds the wrapper
\* pointer (owner) and the Handler h.  via, given and ehAtReg only record the call
\* that registered it (the chu operation, its method argument, its pattern, the wrapper's
\* errHandler at that moment); so do parent, ehAtCreate (the parent's errHandler
\* when the sub-scope was made), form (Group or Route) and sets (SetErrorHandler
\* calls) of a wrapper.
NoRoute ==
    [method |-> None, pattern |-> None, h |-> NoHandler, owner |-> 0,
     via |-> None, arg |-> None, given |-> None, ehAtReg |-> None]

NoFallback == [nf |-> NoRoute, mna |-> NoRoute]

\* mx.handler != nil in chi: set by the first route or mount.
HasHandler(w) == w.routes # {} \/ w.mounts # <<>>

RoutesAt(w, p) == {rt \in w.routes : rt.pattern = p}
RouteFor(w, m, p) == CHOOSE rt \in w.routes : rt.method = m /\ rt.pattern = p
MountsAt(w, p) == {i \in 1..Len(w.mounts) : w.mounts[i].pattern = p}
MountFor(w, p) == w.mounts[CHOOSE i \in MountsAt(w, p) : TRUE]

\* The error returned by the user code that ran last in tr after position n
\* (the callee directly beneath a middleware returns last).
LastReturned(tr, n) ==
    LET idx == {i \in (n + 1)..Len(tr) : tr[i].ev \in {"handler", "return"}}
    IN  IF idx = {} THEN NoErr
        ELSE tr[CHOOSE i \in idx : \A j \in idx : j <= i].err

----------------------------------------------------------------------------
\* Serving a request

adaptAlwaysReports(r, rt, wr, st) ==
    LET c == CallHandler(rt.h, wr.ctx, wr, st)
    IN  CallErrorHandler(routers[r].errHandler, c.st, c.err, r, rt.ehAtReg)

\* The conventional handler returned by Router.adapt(h), called with (w, req).
adapt(r, rt, wr, st) ==
    LET c == CallHandler(rt.h, wr.ctx, wr, st)
    IN  IF c.err # NoErr
        THEN CallErrorHandler(routers[r].errHandler, c.st, c.err, r, rt.ehAtReg)
        ELSE c.st

\* The conventional handler returned by AdaptHandler(h, errHandler).
AdaptHandler(h, errHandler, wr, st) ==
    LET c == CallHandler(h, wr.ctx, wr, st)
    IN  IF c.err # NoErr
        THEN CallErrorHandler(errHandler, c.st, c.err, 0, errHandler)
        ELSE c.st

\* The conventional middleware m called with (w, r): what it writes itself.
CallStdMw(m, wr, st) ==
    [resp  |-> IF m.kind = "block" THEN Write(WriteHeader(st.resp, 403), m.name)
               ELSE st.resp,
     trace |-> Append(st.trace,
                  EvCall(Ev("stdmw", m.name, NoErr, 0, Len(st.resp.body), None),
                         wr.ctx, wr))]

\* The (w, r) it forwards to next.
StdForward(m, wr) ==
    CASE m.kind = "forwardCtx" -> WithContext(wr, WithValue(wr.ctx, "v"))
      [] m.kind = "wrap" -> [wr EXCEPT !.w = Append(@, m.name)]
      [] OTHER -> wr

AdaptedNextOuterCtx(ctx, wr, fwd) == [ctx |-> ctx, wr |-> fwd]

\* AdaptMiddleware: the handler given to stdMiddleware runs
\* next(r.Context(), w, r) with the (w, r) it was called with (fwd); ctx and
\* wr are the arguments of the enclosing Handler.
AdaptedNext(ctx, wr, fwd) == [ctx |-> fwd.ctx, wr |-> fwd]

AdaptedReturnShadowed(forwarded, got) == NoErr

\* var err error; err = next(...) in the forwarded call; return err.
AdaptedReturn(forwarded, got) == IF forwarded THEN got ELSE NoErr

\* The Handler AdaptMiddleware(m)(next), called with (ctx, w, r).
AdaptMiddleware(m, next, ctx, wr, st) ==
    LET s1 == CallStdMw(m, wr, st)
        a == AdaptedNext(ctx, wr, StdForward(m, wr))
        c == IF StdForwards(m) THEN CallHandler(next, a.ctx, a.wr, s1)
             ELSE [st |-> s1, err |-> NoErr]
    IN  [st |-> c.st, err |-> AdaptedReturn(StdForwards(m), c.err)]

\* What the Handler returned by the transform mw calls next with, given its own
\* (ctx, w, r).
NextArgs(mw, ctx, wr) ==
    CASE mw.kind = "ctxOnly" -> [ctx |-> WithValue(ctx, "u"), wr |-> wr]
      [] mw.kind = "withCtx" ->
            [ctx |-> WithValue(ctx, "u"), wr |-> WithContext(wr, WithValue(ctx, "u"))]
      [] mw.kind = "AdaptMiddleware" ->
            AdaptedNext(ctx, wr, StdForward(StdMwOf(mw.name), wr))
      [] OTHER -> [ctx |-> ctx, wr |-> wr]

TerminalReturnsDown(down) == down

\* What the terminal Handler that Use hands to the middleware returns, after
\* next.ServeHTTP came back; down is the error returned beneath it.
TerminalReturn(down) == NoErr

\* The error a middleware's Handler returns, given what its call of next gave it.
MwReturn(mw, got) ==
    CASE mw.kind \in {"pass", "ctxOnly", "withCtx", "AdaptMiddleware"} -> got
      [] mw.kind = "ok" -> NoErr
      [] OTHER -> MwErr(mw.name)

\* chi's own answers.
ChiNotFound(st) ==
    [resp  |-> HttpError(st.resp, "404 page not found", 404),
     trace |-> Append(st.trace, Ev("chi404", None, NoErr, 0, Len(st.resp.body), None))]

ChiMethodNotAllowed(st) ==
    [resp  |-> WriteHeader(st.resp, 405),
     trace |-> Append(st.trace, Ev("chi405", None, NoErr, 0, Len(st.resp.body), None))]

NotFoundOf(w, fb) == IF w.notFound.owner # 0 THEN w.notFound ELSE fb.nf
MethodNotAllowedOf(w, fb) ==
    IF w.methodNotAllowed.owner # 0 THEN w.methodNotAllowed ELSE fb.mna

ServeNotFound(w, fb, wr, st) ==
    LET rt == NotFoundOf(w, fb)
    IN  IF rt.owner # 0 THEN adapt(rt.owner, rt, wr, st) ELSE ChiNotFound(st)

ServeMethodNotAllowed(w, fb, wr, st) ==
    LET rt == MethodNotAllowedOf(w, fb)
    IN  IF rt.owner # 0 THEN adapt(rt.owner, rt, wr, st) ELSE ChiMethodNotAllowed(st)

\* if err := wrappedHandler(req.Context(), w, req); err != nil
LinkFailsNever(ret) == FALSE

LinkFails(ret) == ret # NoErr

RECURSIVE ServeChi(_, _, _, _, _, _)
RECURSIVE ServeFrom(_, _, _, _, _, _, _)

\* One chain link registered by Use, called with (w, req): the closure holds
\* the wrapper pointer (owner) and the middleware transform mw.  The Handler mw
\* returns is called with (req.Context(), w, req); the terminal Handler it
\* calls as next runs next.ServeHTTP(w, r) with the (w, r) it was given.
ServeLink(c, i, m, path, fb, wr, st) ==
    LET link == routers[c].mws[i]
        mw == link.mw
        s0 == Log(st, EvCall(Ev("pre", mw.name, NoErr, link.owner,
                                Len(st.resp.body), None), wr.ctx, wr))
        s1 == IF mw.kind = "AdaptMiddleware" THEN CallStdMw(StdMwOf(mw.name), wr, s0)
              ELSE s0
        a == NextArgs(mw, wr.ctx, wr)
        inner == IF CallsNext(mw) THEN ServeFrom(c, i + 1, m, path, fb, a.wr, s1) ELSE s1
        down == LastReturned(inner.trace, Len(s1.trace))
        got == IF CallsNext(mw) THEN TerminalReturn(down) ELSE NoErr
        s2 == IF CallsNext(mw)
              THEN Log(Log(inner,
                           EvCall(Ev("next", mw.name, got, link.owner,
                                     Len(inner.resp.body), down), a.ctx, a.wr)),
                       Ev("post", mw.name, NoErr, link.owner, Len(inner.resp.body), None))
              ELSE inner
        ret == MwReturn(mw, got)
        s3 == Log(s2, Ev("return", mw.name, ret, link.owner, Len(s2.resp.body), None))
    IN  IF LinkFails(ret)
        THEN CallErrorHandler(routers[link.owner].errHandler, s3, ret, link.owner,
                              link.ehAtReg)
        ELSE s3

\* mx.routeHTTP: the route for (method, path), else a mount, else a fallback.
RouteHTTP(c, m, path, fb, wr, st) ==
    LET w == routers[c]
        sub == [nf |-> NotFoundOf(w, fb), mna |-> MethodNotAllowedOf(w, fb)]
        Enter(mt, rest) ==
            IF mt.kind = "router" THEN ServeChi(mt.child, m, rest, sub, wr, st)
            ELSE CallStd(mt.std, wr, st)
    IN  IF Len(path) = 1 /\ RoutesAt(w, path[1]) # {}
        THEN IF \E rt \in RoutesAt(w, path[1]) : rt.method = m
             THEN LET rt == RouteFor(w, m, path[1]) IN adapt(rt.owner, rt, wr, st)
             ELSE ServeMethodNotAllowed(w, fb, wr, st)
        ELSE IF Len(path) >= 1 /\ MountsAt(w, path[1]) # {}
        THEN Enter(MountFor(w, path[1]), Tail(path))
        ELSE IF MountsAt(w, RootPattern) # {}
        THEN Enter(MountFor(w, RootPattern), path)
        ELSE ServeNotFound(w, fb, wr, st)

ServeFrom(c, i, m, path, fb, wr, st) ==
    IF i > Len(routers[c].mws)
    THEN RouteHTTP(c, m, path, fb, wr, st)
    ELSE ServeLink(c, i, m, path, fb, wr, st)

\* (*Mux).ServeHTTP of the underlying router of wrapper c: without any route the
\* not-found handler answers directly, else the middleware chain runs.
ServeChi(c, m, path, fb, wr, st) ==
    IF ~HasHandler(routers[c])
    THEN ServeNotFound(routers[c], fb, wr, st)
    ELSE ServeFrom(c, 1, m, path, fb, wr, st)

----------------------------------------------------------------------------
\* Construction

Wrapper(eh, rb, builtBy, parent) ==
    [errHandler |-> eh, routerBuilder |-> rb, builtBy |-> builtBy,
     mws |-> <<>>, routes |-> {}, notFound |-> NoRoute, methodNotAllowed |-> NoRoute,
     mounts |-> <<>>,
     parent |-> parent, ehAtCreate |-> None, sets |-> 0, form |-> None]

WithErrorHandler(handler, r) == [r EXCEPT !.errHandler = handler]
WithRouterBuilder(builder, r) == [r EXCEPT !.routerBuilder = builder]

ApplyOption(opt, r) ==
    IF opt.kind = "WithErrorHandler"
    THEN WithErrorHandler(opt.val, r)
    ELSE WithRouterBuilder(opt.val, r)

\* for _, opt := range opts { opt(r) }
RECURSIVE ApplyOpts(_, _)
ApplyOpts(r, opts) ==
    IF opts = <<>> THEN r ELSE ApplyOpts(ApplyOption(Head(opts), r), Tail(opts))

\* New(opts...): the wrapper it returns and the builders it invoked.
NewRouterBuildFirst(opts) ==
    LET r0 == [errHandler |-> defaultErrorHandler, routerBuilder |-> defaultRouterBuilder]
        r1 == ApplyOpts(r0, opts)
    IN  [w |-> Wrapper(r1.errHandler, r1.routerBuilder, r0.routerBuilder, 0),
         calls |-> <<r0.routerBuilder>>]

NewRouter(opts) ==
    LET r0 == [errHandler |-> defaultErrorHandler, routerBuilder |-> defaultRouterBuilder]
        r1 == ApplyOpts(r0, opts)
    IN  [w |-> Wrapper(r1.errHandler, r1.routerBuilder, r1.routerBuilder, 0),
         calls |-> <<r1.routerBuilder>>]

\* The sub-router literal of Group and Route: chi from the parent's builder,
\* errHandler copied, routerBuilder left at its zero value.
SubRouterDefaultHandler(r) ==
    Wrapper(defaultErrorHandler, NilBuilder, routers[r].routerBuilder, r)

SubRouter(r) ==
    Wrapper(routers[r].errHandler, NilBuilder, routers[r].routerBuilder, r)

NoReq ==
    [kind |-> None, method |-> None, path |-> <<>>, h |-> None, eh |-> None,
     mw |-> None, ctx |-> None]

\* Registration and serving are sequential here: a request is served to its end
\* and its recorder dropped (Finish) before the next call.
Idle == ~panicked /\ req.kind = None
Live == Idle /\ routers # <<>>
Ids == DOMAIN routers

NumRoutes(rs) ==
    LET n[i \in 0..Len(rs)] ==
            IF i = 0 THEN 0
            ELSE n[i - 1] + Cardinality(rs[i].routes)
                 + (IF rs[i].notFound.owner # 0 THEN 1 ELSE 0)
                 + (IF rs[i].methodNotAllowed.owner # 0 THEN 1 ELSE 0)
    IN  n[Len(rs)]

NumMws(rs) ==
    LET n[i \in 0..Len(rs)] == IF i = 0 THEN 0 ELSE n[i - 1] + Len(rs[i].mws)
    IN  n[Len(rs)]

NumSets(rs) ==
    LET n[i \in 0..Len(rs)] == IF i = 0 THEN 0 ELSE n[i - 1] + rs[i].sets
    IN  n[Len(rs)]

NumStdMounts(rs) ==
    LET n[i \in 0..Len(rs)] ==
            IF i = 0 THEN 0
            ELSE n[i - 1]
                 + Cardinality({j \in 1..Len(rs[i].mounts) : rs[i].mounts[j].kind = "handler"})
    IN  n[Len(rs)]

Init ==
    /\ routers = <<>>
    /\ open = <<>>
    /\ panicked = FALSE
    /\ newOpts = <<>>
    /\ builderCalls = <<>>
    /\ req = NoReq
    /\ trace = <<>>
    /\ resp = EmptyResp
    /\ flights = <<>>

Panic ==
    /\ panicked' = TRUE
    /\ UNCHANGED <<routers, newOpts, builderCalls, req, trace, resp, flights>>

New(opts) ==
    /\ routers = <<>>
    /\ Idle
    /\ LET n == NewRouter(opts)
       IN  /\ routers' = <<n.w>>
           /\ builderCalls' = n.calls
    /\ newOpts' = opts
    /\ UNCHANGED <<open, panicked, req, trace, resp, flights>>

SetErrorHandler(r, handler) ==
    /\ Live
    /\ r \in Ids
    /\ routers' = [routers EXCEPT ![r].errHandler = handler, ![r].sets = @ + 1]
    /\ UNCHANGED <<open, panicked, newOpts, builderCalls, req, trace, resp, flights>>

----------------------------------------------------------------------------
\* Sub-scopes

\* chi's Mount panics when the pattern is already mounted on the router.
ChiMount(r, mt) ==
    IF MountsAt(routers[r], mt.pattern) # {}
    THEN Panic
    ELSE /\ routers' = [routers EXCEPT ![r].mounts = Append(@, mt)]
         /\ UNCHANGED <<panicked, newOpts, builderCalls, req, trace, resp, flights>>

\* Group and Route up to the call of fn(subRouter): calling a nil routerBuilder
\* panics.
EnterScope(r, pattern, form) ==
    /\ Live
    /\ r \in Ids
    /\ IF routers[r].routerBuilder = NilBuilder
       THEN Panic /\ UNCHANGED open
       ELSE /\ routers' = Append(routers,
                   [SubRouter(r) EXCEPT !.ehAtCreate = routers[r].errHandler,
                                        !.form = form])
            /\ builderCalls' = Append(builderCalls, routers[r].routerBuilder)
            /\ open' = Append(open, [parent |-> r, child |-> Len(routers) + 1,
                                     pattern |-> pattern, form |-> form])
            /\ UNCHANGED <<panicked, newOpts, req, trace, resp, flights>>

Group(r) == EnterScope(r, RootPattern, "Group")

Route(r, pattern) == EnterScope(r, pattern, "Route")

\* fn returned: r.chi.Mount(pattern, subRouter.chi).
ScopeReturn ==
    /\ Idle
    /\ open # <<>>
    /\ LET o == open[Len(open)]
       IN  ChiMount(o.parent, [pattern |-> o.pattern, kind |-> "router",
                               child |-> o.child, std |-> None])
    /\ open' = SubSeq(open, 1, Len(open) - 1)

MountResetsErrorHandler(r, pattern, h) ==
    /\ Live
    /\ r \in Ids
    /\ routers' = [routers EXCEPT
                      ![r].mounts = Append(@, [pattern |-> pattern, kind |-> "handler",
                                               child |-> 0, std |-> h]),
                      ![r].errHandler = defaultErrorHandler]
    /\ UNCHANGED <<open, panicked, newOpts, builderCalls, req, trace, resp, flights>>

\* Mount(pattern, h): the handler goes to chi as it is.
Mount(r, pattern, h) ==
    /\ Live
    /\ r \in Ids
    /\ ChiMount(r, [pattern |-> pattern, kind |-> "handler", child |-> 0, std |-> h])
    /\ UNCHANGED open

----------------------------------------------------------------------------
\* Route registration: r.chi.<Op>(pattern, r.adapt(h))

\* chi keeps one handler per (method, pattern): a later registration replaces it.
ChiHandle(r, method, pattern, h, via, arg, given) ==
    /\ Live
    /\ r \in Ids
    /\ LET rt == [method |-> method, pattern |-> pattern, h |-> h, owner |-> r,
                  via |-> via, arg |-> arg, given |-> given,
                  ehAtReg |-> routers[r].errHandler]
           kept == {x \in routers[r].routes :
                        ~(x.method = method /\ x.pattern = pattern)}
       IN  routers' = [routers EXCEPT ![r].routes = kept \cup {rt}]
    /\ UNCHANGED <<open, panicked, newOpts, builderCalls, req, trace, resp, flights>>

PutAsPost(r, pattern, h) == ChiHandle(r, "POST", pattern, h, "Put", None, pattern)

Method(r, method, pattern, h) ==
    ChiHandle(r, method, pattern, h, "Method", method, pattern)
Get(r, pattern, h) == ChiHandle(r, "GET", pattern, h, "Get", None, pattern)
Post(r, pattern, h) == ChiHandle(r, "POST", pattern, h, "Post", None, pattern)
Put(r, pattern, h) == ChiHandle(r, "PUT", pattern, h, "Put", None, pattern)
Delete(r, pattern, h) == ChiHandle(r, "DELETE", pattern, h, "Delete", None, pattern)
Patch(r, pattern, h) == ChiHandle(r, "PATCH", pattern, h, "Patch", None, pattern)
Head_(r, pattern, h) == ChiHandle(r, "HEAD", pattern, h, "Head", None, pattern)
Options(r, pattern, h) == ChiHandle(r, "OPTIONS", pattern, h, "Options", None, pattern)
Connect(r, pattern, h) == ChiHandle(r, "CONNECT", pattern, h, "Connect", None, pattern)
Trace(r, pattern, h) == ChiHandle(r, "TRACE", pattern, h, "Trace", None, pattern)

Fallback(r, h, via) ==
    [method |-> via, pattern |-> None, h |-> h, owner |-> r,
     via |-> via, arg |-> None, given |-> None, ehAtReg |-> routers[r].errHandler]

NotFound(r, h) ==
    /\ Live
    /\ r \in Ids
    /\ routers' = [routers EXCEPT ![r].notFound = Fallback(r, h, "NotFound")]
    /\ UNCHANGED <<open, panicked, newOpts, builderCalls, req, trace, resp, flights>>

MethodNotAllowed(r, h) ==
    /\ Live
    /\ r \in Ids
    /\ routers' = [routers EXCEPT
                      ![r].methodNotAllowed = Fallback(r, h, "MethodNotAllowed")]
    /\ UNCHANGED <<open, panicked, newOpts, builderCalls, req, trace, resp, flights>>

----------------------------------------------------------------------------
\* Middleware registration

\* The middleware transform the i-th chain link invokes: the loop variable
\* `middleware` of its own iteration.
LinkMwLast(ms, i) == ms[Len(ms)]

LinkMw(ms, i) == ms[i]

\* wrappedMiddlewares, then r.chi.Use(wrappedMiddlewares...): chi panics when
\* the router already has a route.
Use(r, ms) ==
    /\ Live
    /\ r \in Ids
    /\ ms # <<>>
    /\ IF HasHandler(routers[r])
       THEN Panic
       ELSE /\ routers' = [routers EXCEPT ![r].mws =
                   @ \o [i \in 1..Len(ms) |->
                            [owner |-> r, mw |-> LinkMw(ms, i), reg |-> ms[i],
                             ehAtReg |-> routers[r].errHandler]]]
            /\ UNCHANGED <<panicked, newOpts, builderCalls, req, trace, resp, flights>>
    /\ UNCHANGED open

----------------------------------------------------------------------------
\* Requests

Start == [resp |-> EmptyResp, trace |-> <<>>]

\* (r *Router) ServeHTTP on the root wrapper, with a fresh response.
ServeHTTP(method, path) ==
    /\ Live
    /\ open = <<>>
    /\ LET out == ServeChi(1, method, path, NoFallback, Incoming, Start)
       IN  /\ trace' = out.trace
           /\ resp' = out.resp
    /\ req' = [NoReq EXCEPT !.kind = "router", !.method = method, !.path = path]
    /\ UNCHANGED <<routers, open, panicked, newOpts, builderCalls, flights>>

\* The handler AdaptHandler(h, errHandler) served on its own.
ServeAdapted(h, errHandler) ==
    /\ Idle
    /\ LET out == AdaptHandler(h, errHandler, Incoming, Start)
       IN  /\ trace' = out.trace
           /\ resp' = out.resp
    /\ req' = [NoReq EXCEPT !.kind = "AdaptHandler", !.method = "GET",
                            !.h = h.id, !.eh = errHandler]
    /\ UNCHANGED <<routers, open, panicked, newOpts, builderCalls, flights>>

\* The Handler AdaptMiddleware(m)(next) called on its own with (ctx, w, r); what
\* it returned is logged last.
ServeAdaptedMw(m, next, ctx) ==
    /\ Idle
    /\ LET out == AdaptMiddleware(m, next, ctx, Incoming, Start)
       IN  /\ trace' = Append(out.st.trace,
                         Ev("return", m.name, out.err, 0, Len(out.st.resp.body), None))
           /\ resp' = out.st.resp
    /\ req' = [NoReq EXCEPT !.kind = "AdaptMiddleware", !.method = "GET",
                            !.h = next.id, !.mw = m.name, !.ctx = ctx]
    /\ UNCHANGED <<routers, open, panicked, newOpts, builderCalls, flights>>

\* The request is over and its recorder dropped.
Finish ==
    /\ req.kind # None
    /\ req' = NoReq
    /\ trace' = <<>>
    /\ resp' = EmptyResp
    /\ UNCHANGED <<routers, open, panicked, newOpts, builderCalls, flights>>

Prefixes == {"/api"}
PathsOf(leaves) == {<<p>> : p \in leaves} \cup {<<q, p>> : q \in Prefixes, p \in leaves}

----------------------------------------------------------------------------
\* Specification: wrappers, sub-scopes, error handlers and requests

CoreOpts == {<<>>, <<[kind |-> "WithErrorHandler", val |-> "eh1"]>>}
CoreHandlers == {h \in Handlers : h.id = "h1"}
CorePatterns == {"/a"}

Next ==
    \/ \E opts \in CoreOpts : New(opts)
    \/ \E r \in Ids, eh \in CustomErrorHandlers :
          NumSets(routers) < MaxSets /\ SetErrorHandler(r, eh)
    \/ \E r \in Ids, p \in CorePatterns, h \in CoreHandlers :
          NumRoutes(routers) < MaxRoutes /\ Get(r, p, h)
    \/ \E r \in Ids : Len(routers) < MaxRouters /\ Group(r)
    \/ \E r \in Ids, p \in Prefixes : Len(routers) < MaxRouters /\ Route(r, p)
    \/ ScopeReturn
    \/ \E path \in PathsOf(CorePatterns) : ServeHTTP("GET", path)
    \/ Finish

Spec == Init /\ [][Next]_vars

----------------------------------------------------------------------------
\* Specification: one router, its middleware chain, one route, adapted handlers

ChainSeqs == SeqsUpTo(Middlewares, MaxChain) \ {<<>>}

NextChain ==
    \/ \E opts \in CoreOpts : New(opts)
    \/ \E ms \in ChainSeqs :
          NumMws(routers) + Len(ms) <= MaxChain /\ Use(1, ms)
    \/ \E p \in CorePatterns, h \in Handlers :
          NumRoutes(routers) < MaxRoutes /\ Get(1, p, h)
    \/ \E path \in PathsOf(CorePatterns) : ServeHTTP("GET", path)
    \/ \E h \in Handlers, eh \in ErrorHandlers :
          routers = <<>> /\ ServeAdapted(h, eh)
    \/ Finish

SpecChain == Init /\ [][NextChain]_vars

----------------------------------------------------------------------------
\* Specification: New with its options, then sub-scopes

OptSeqs == SeqsUpTo(Option, MaxOpts)

NextNew ==
    \/ \E opts \in OptSeqs : New(opts)
    \/ Len(routers) < MaxRouters /\ Group(1)
    \/ \E p \in Prefixes : Len(routers) < MaxRouters /\ Route(1, p)
    \/ ScopeReturn
    \/ \E r \in Ids, p \in CorePatterns, h \in CoreHandlers :
          NumRoutes(routers) < MaxRoutes /\ Get(r, p, h)
    \/ \E path \in PathsOf(CorePatterns) : ServeHTTP("GET", path)
    \/ Finish

SpecNew == Init /\ [][NextNew]_vars

----------------------------------------------------------------------------
\* Specification: every registration operation on one router

MethodHandlers == {h \in Handlers : h.id \in {"h1", "h2"}}
MethodArgs == {"GET", "PUT"}

NextMethods ==
    \/ New(<<>>)
    \/ \E m \in MethodArgs, p \in Patterns, h \in MethodHandlers :
          NumRoutes(routers) < MaxRoutes /\ Method(1, m, p, h)
    \/ \E p \in Patterns, h \in MethodHandlers :
          NumRoutes(routers) < MaxRoutes /\ Get(1, p, h)
    \/ \E p \in Patterns, h \in MethodHandlers :
          NumRoutes(routers) < MaxRoutes /\ Post(1, p, h)
    \/ \E p \in Patterns, h \in MethodHandlers :
          NumRoutes(routers) < MaxRoutes /\ Put(1, p, h)
    \/ \E p \in Patterns, h \in MethodHandlers :
          NumRoutes(routers) < MaxRoutes /\ Delete(1, p, h)
    \/ \E p \in Patterns, h \in MethodHandlers :
          NumRoutes(routers) < MaxRoutes /\ Patch(1, p, h)
    \/ \E p \in Patterns, h \in MethodHandlers :
          NumRoutes(routers) < MaxRoutes /\ Head_(1, p, h)
    \/ \E p \in Patterns, h \in MethodHandlers :
          NumRoutes(routers) < MaxRoutes /\ Options(1, p, h)
    \/ \E p \in Patterns, h \in MethodHandlers :
          NumRoutes(routers) < MaxRoutes /\ Connect(1, p, h)
    \/ \E p \in Patterns, h \in MethodHandlers :
          NumRoutes(routers) < MaxRoutes /\ Trace(1, p, h)
    \/ \E h \in MethodHandlers : NumRoutes(routers) < MaxRoutes /\ NotFound(1, h)
    \/ \E h \in MethodHandlers :
          NumRoutes(routers) < MaxRoutes /\ MethodNotAllowed(1, h)
    \/ \E m \in Methods, p \in Patterns : ServeHTTP(m, <<p>>)
    \/ Finish

SpecMethods == Init /\ [][NextMethods]_vars

----------------------------------------------------------------------------
\* Specification: the adapters for conventional handlers and middleware, Mount

AdapterMiddlewares ==
    {mw \in CtxMiddlewares : mw.name \in {"E", "F", "T", "U"}}
AdapterHandlers ==
    {h \in Handlers : h.id \in {"h1", "h3"}} \cup {StandardHandler(s) : s \in StdHandlers}
CallerCtxs == {Incoming.ctx, {"c"}}

NextAdapters ==
    \/ \E opts \in CoreOpts : New(opts)
    \/ \E mw \in AdapterMiddlewares :
          NumMws(routers) < MaxChain /\ Use(1, <<mw>>)
    \/ \E p \in CorePatterns, h \in AdapterHandlers :
          NumRoutes(routers) + NumStdMounts(routers) < MaxRoutes /\ Get(1, p, h)
    \/ \E p \in Prefixes, s \in StdHandlers :
          NumRoutes(routers) + NumStdMounts(routers) < MaxRoutes /\ Mount(1, p, s)
    \/ \E path \in PathsOf(CorePatterns) \cup {<<q>> : q \in Prefixes} :
          ServeHTTP("GET", path)
    \/ \E h \in AdapterHandlers, eh \in ErrorHandlers :
          routers = <<>> /\ ServeAdapted(h, eh)
    \/ \E m \in StdMiddlewares, h \in AdapterHandlers, ctx \in CallerCtxs :
          routers = <<>> /\ ServeAdaptedMw(m, h, ctx)
    \/ Finish

SpecAdapters == Init /\ [][NextAdapters]_vars

----------------------------------------------------------------------------
\* Dispatches side by side: each request served by the root wrapper runs on its
\* own goroutine, one call at a time: a chain link is entered, the route's
\* Handler runs, an error is reported to r.errHandler, a middleware gets
\* control back from next.  Every step reads the wrappers as they are then.

NoPend == [owner |-> 0, err |-> NoErr, tag |-> None]

\* (r *Router) ServeHTTP reached r.chi.ServeHTTP: the chain runs when the
\* router has a route, else the not-found handler answers.  i is the link to
\* enter (pc "link") or the link to return into (0: none).
NewFlight(method, path) ==
    LET chain == HasHandler(routers[1]) /\ routers[1].mws # <<>>
    IN  [method |-> method, path |-> path,
         pc |-> IF chain THEN "link" ELSE "route",
         i |-> IF chain THEN 1 ELSE 0,
         frames |-> <<>>, wr |-> Incoming, pend |-> NoPend, st |-> Start]

\* The call returned an error (or not): report it next, or go back up.
Returning(f, st, ret, owner, tag, to) ==
    [f EXCEPT !.st = st, !.i = to,
              !.pc = IF LinkFails(ret) THEN "report" ELSE "up",
              !.pend = IF LinkFails(ret)
                       THEN [owner |-> owner, err |-> ret, tag |-> tag] ELSE NoPend]

\* A chain link called with (w, req): the Handler of its transform runs up to
\* its call of next, or to its end when it does not call next.
StepLink(f) ==
    LET n == Len(routers[1].mws)
        link == routers[1].mws[f.i]
        mw == link.mw
        s0 == Log(f.st, EvCall(Ev("pre", mw.name, NoErr, link.owner,
                                  Len(f.st.resp.body), None), f.wr.ctx, f.wr))
        s1 == IF mw.kind = "AdaptMiddleware" THEN CallStdMw(StdMwOf(mw.name), f.wr, s0)
              ELSE s0
        a == NextArgs(mw, f.wr.ctx, f.wr)
        ret == MwReturn(mw, NoErr)
        s3 == Log(s1, Ev("return", mw.name, ret, link.owner, Len(s1.resp.body), None))
    IN  IF CallsNext(mw)
        THEN [f EXCEPT !.st = s1, !.wr = a.wr,
                       !.frames = Append(@, [mark |-> Len(s1.trace), wr |-> f.wr, a |-> a]),
                       !.pc = IF f.i = n THEN "route" ELSE "link",
                       !.i = IF f.i = n THEN n ELSE f.i + 1]
        ELSE Returning(f, s3, ret, link.owner, link.ehAtReg, f.i - 1)

\* mx.routeHTTP on the root: the conventional handler made by adapt runs its
\* Handler; chi answers itself without a route and without a fallback.
StepRoute(f) ==
    LET w == routers[1]
        p == f.path[1]
        rt == IF RoutesAt(w, p) = {} THEN NotFoundOf(w, NoFallback)
              ELSE IF \E x \in RoutesAt(w, p) : x.method = f.method
              THEN RouteFor(w, f.method, p)
              ELSE MethodNotAllowedOf(w, NoFallback)
        c == CallHandler(rt.h, f.wr.ctx, f.wr, f.st)
    IN  IF rt.owner # 0
        THEN Returning(f, c.st, c.err, rt.owner, rt.ehAtReg, f.i)
        ELSE [f EXCEPT !.pc = "up",
                       !.st = IF RoutesAt(w, p) = {} THEN ChiNotFound(f.st)
                              ELSE ChiMethodNotAllowed(f.st)]

\* r.errHandler(w, req, err): the wrapper's field is read now.
StepReport(f) ==
    [f EXCEPT !.st = CallErrorHandler(routers[f.pend.owner].errHandler, f.st,
                                      f.pend.err, f.pend.owner, f.pend.tag),
              !.pc = "up", !.pend = NoPend]

\* next.ServeHTTP came back to the terminal Handler of link i, which returns to
\* the middleware; the middleware runs to its end.
StepUp(f) ==
    LET link == routers[1].mws[f.i]
        mw == link.mw
        fr == f.frames[Len(f.frames)]
        down == LastReturned(f.st.trace, fr.mark)
        got == TerminalReturn(down)
        s2 == Log(Log(f.st,
                      EvCall(Ev("next", mw.name, got, link.owner,
                                Len(f.st.resp.body), down), fr.a.ctx, fr.a.wr)),
                  Ev("post", mw.name, NoErr, link.owner, Len(f.st.resp.body), None))
        ret == MwReturn(mw, got)
        s3 == Log(s2, Ev("return", mw.name, ret, link.owner, Len(s2.resp.body), None))
    IN  Returning([f EXCEPT !.frames = SubSeq(@, 1, Len(@) - 1), !.wr = fr.wr],
                  s3, ret, link.owner, link.ehAtReg, f.i - 1)

Flying == DOMAIN flights

DispatchStepResets(rs, d) ==
    [rs EXCEPT ![1].errHandler = defaultErrorHandler]

\* The wrappers after a step of dispatch d: no step assigns to a wrapper.
DispatchStep(rs, d) == rs

Dispatch(d, f) ==
    /\ flights' = [flights EXCEPT ![d] = f]
    /\ routers' = DispatchStep(routers, d)
    /\ UNCHANGED <<open, panicked, newOpts, builderCalls, req, trace, resp>>

\* A request arrives while others are being served.
Arrive(method, path) ==
    /\ Live
    /\ open = <<>>
    /\ routers[1].mounts = <<>>
    /\ flights' = Append(flights, NewFlight(method, path))
    /\ UNCHANGED <<routers, open, panicked, newOpts, builderCalls, req, trace, resp>>

EnterLink(d) ==
    /\ d \in Flying /\ flights[d].pc = "link"
    /\ Dispatch(d, StepLink(flights[d]))

RunRoute(d) ==
    /\ d \in Flying /\ flights[d].pc = "route"
    /\ Dispatch(d, StepRoute(flights[d]))

Report(d) ==
    /\ d \in Flying /\ flights[d].pc = "report"
    /\ Dispatch(d, StepReport(flights[d]))

BackUp(d) ==
    /\ d \in Flying /\ flights[d].pc = "up" /\ flights[d].i > 0
    /\ Dispatch(d, StepUp(flights[d]))

Done(f) == f.pc = "up" /\ f.i = 0

\* ServeHTTP returns: the dispatch is over.
Return(d) ==
    /\ d \in Flying /\ Done(flights[d])
    /\ flights' = SubSeq(flights, 1, d - 1) \o SubSeq(flights, d + 1, Len(flights))
    /\ UNCHANGED <<routers, open, panicked, newOpts, builderCalls, req, trace, resp>>

ConcMiddlewares == {mw \in Middlewares : mw.name \in {"A", "C", "D"}}
ConcChains == SeqsUpTo(ConcMiddlewares, 2) \ {<<>>}
ConcHandlers == {h \in Handlers : h.id \in {"h1", "h2"}}

NextConc ==
    \/ \E opts \in CoreOpts : New(opts)
    \/ \E ms \in ConcChains :
          flights = <<>> /\ NumMws(routers) = 0 /\ Use(1, ms)
    \/ \E p \in CorePatterns, h \in ConcHandlers :
          flights = <<>> /\ NumRoutes(routers) = 0 /\ Get(1, p, h)
    \/ \E h \in ConcHandlers :
          flights = <<>> /\ NumRoutes(routers) = 0 /\ NotFound(1, h)
    \/ \E p \in Patterns : Len(flights) < MaxFlights /\ Arrive("GET", <<p>>)
    \/ \E d \in DOMAIN flights : EnterLink(d)
    \/ \E d \in DOMAIN flights : RunRoute(d)
    \/ \E d \in DOMAIN flights : Report(d)
    \/ \E d \in DOMAIN flights : BackUp(d)
    \/ \E d \in DOMAIN flights : Return(d)

SpecConc == Init /\ [][NextConc]_vars

----------------------------------------------------------------------------
\* Which ErrorHandler a failed dispatch consults

ErrEvents == {i \in DOMAIN trace : trace[i].ev = "errHandler"}

\* C2: the ErrorHandler invoked for a failed dispatch is the one that was
\* active on the wrapper when the failing route or link was registered, also
\* when SetErrorHandler was called between the registration and the request.
C2_BoundAtRegistration ==
    \A i \in ErrEvents : trace[i].who = trace[i].tag

SubScopes == {c \in Ids : routers[c].parent # 0}

\* C3: a sub-scope that was not itself given SetErrorHandler keeps the
\* ErrorHandler its parent had when Group or Route created it, whatever the
\* parent was given since, and that is the one its failing handlers reach.
C3_SubScopeKeepsHandler ==
    /\ \A c \in SubScopes :
          routers[c].sets = 0 => routers[c].errHandler = routers[c].ehAtCreate
    /\ \A i \in ErrEvents :
          LET c == trace[i].by
          IN  (c \in SubScopes /\ routers[c].sets = 0)
                  => trace[i].who = routers[c].ehAtCreate

\* One sub-scope made before an override of the root and one made after it; a
\* handler of the earlier one failed and reached the prior ErrorHandler.
C3_Witness ==
    \E c \in SubScopes, d \in SubScopes, i \in ErrEvents :
        /\ routers[c].parent = 1 /\ routers[d].parent = 1
        /\ routers[c].sets = 0 /\ routers[d].sets = 0
        /\ c < d
        /\ routers[c].ehAtCreate # routers[1].errHandler
        /\ routers[d].ehAtCreate = routers[1].errHandler
        /\ routers[d].errHandler = routers[1].errHandler
        /\ trace[i].by = c
        /\ trace[i].who = routers[c].ehAtCreate

----------------------------------------------------------------------------
\* What one request ran and wrote

HandlerEvents == {i \in DOMAIN trace : trace[i].ev = "handler"}
HandlerOf(id) == CHOOSE h \in Handlers : h.id = id
MwOf(name) == CHOOSE mw \in Middlewares : mw.name = name

\* Body tokens and status each entry of the trace accounts for.
Tokens(e) ==
    CASE e.ev = "handler" -> IF HandlerOf(e.who).writes THEN 1 ELSE 0
      [] e.ev = "errHandler" -> IF e.who = defaultErrorHandler THEN 2 ELSE 3
      [] e.ev = "chi404" -> 2
      [] e.ev = "std" -> 1
      [] OTHER -> 0

StatusOf(e) ==
    CASE e.ev = "handler" -> 200
      [] e.ev = "errHandler" -> IF e.who = defaultErrorHandler THEN 500 ELSE 400
      [] e.ev = "chi404" -> 404
      [] e.ev = "chi405" -> 405
      [] OTHER -> 200

Writers == {i \in DOMAIN trace : Tokens(trace[i]) > 0 \/ trace[i].ev = "chi405"}

TokensUpTo(n) ==
    LET t[i \in 0..n] == IF i = 0 THEN 0 ELSE t[i - 1] + Tokens(trace[i])
    IN  t[n]

\* C1: the handler made by adapt or AdaptHandler calls h once; when h returned
\* an error the ErrorHandler is called right after it, once, with that error
\* (AdaptHandler: the handler it was given; adapt: the wrapper's), and it is
\* never called without a failure; the response holds exactly what h and the
\* ErrorHandler wrote.
C1_AdaptReportsOnce ==
    /\ req.kind = "AdaptHandler" =>
          /\ Cardinality(HandlerEvents) = 1
          /\ \A i \in HandlerEvents : trace[i].who = req.h
    /\ Cardinality(HandlerEvents) <= 1
    /\ \A i \in HandlerEvents :
          IF trace[i].err # NoErr
          THEN /\ i + 1 \in ErrEvents
               /\ trace[i + 1].err = trace[i].err
               /\ req.kind = "AdaptHandler" => trace[i + 1].who = req.eh
               /\ req.kind = "router" =>
                     trace[i + 1].who = routers[trace[i + 1].by].errHandler
          ELSE i + 1 \notin ErrEvents
    /\ \A j \in ErrEvents :
          /\ j > 1
          /\ trace[j - 1].ev \in {"handler", "return"}
          /\ trace[j - 1].err = trace[j].err
          /\ trace[j].err # NoErr
    /\ Len(resp.body) = TokensUpTo(Len(trace))
    /\ \A i \in DOMAIN trace : trace[i].at = TokensUpTo(i - 1)
    /\ resp.status =
          IF Writers = {} THEN 0
          ELSE StatusOf(trace[CHOOSE i \in Writers : \A j \in Writers : i <= j])

\* A handler that wrote and then failed was served through AdaptHandler.
C1_Witness ==
    /\ req.kind = "AdaptHandler"
    /\ \E i \in HandlerEvents :
          /\ trace[i].err # NoErr
          /\ HandlerOf(trace[i].who).writes
          /\ i + 1 \in ErrEvents
    /\ Len(resp.body) > 1

\* C4: the ErrorHandler is invoked at most once during a request, whatever the
\* middleware chain and the route handler returned.
C4_AtMostOneErrorHandlerCall == Cardinality(ErrEvents) <= 1

\* C7: when the handler beneath a middleware returned an error, the
\* middleware's call of next returns that error.
C7_NextReturnsDownstreamError ==
    \A i \in DOMAIN trace :
        (trace[i].ev = "next" /\ trace[i].tag # NoErr) => trace[i].err = trace[i].tag

----------------------------------------------------------------------------
\* The chain

IsPre(e) == e.ev = "pre"
IsPost(e) == e.ev = "post"

\* C5: the links run in registration order, each invoking the transform that
\* was registered at its position: pre-logic of the first registered first,
\* the route handler innermost, post-logic in reverse order; a link is skipped
\* only beneath a middleware that did not call next.
C5_ChainOrder ==
    (req.kind = "router" /\ HasHandler(routers[1])) =>
        LET links == routers[1].mws
            pre == SelectSeq(trace, IsPre)
            post == SelectSeq(trace, IsPost)
        IN  /\ Len(pre) <= Len(links)
            /\ \A k \in 1..Len(pre) : pre[k].who = links[k].reg.name
            /\ Len(pre) < Len(links) => ~CallsNext(links[Len(pre)].reg)
            /\ \A k \in 1..Len(pre) : k < Len(pre) => CallsNext(links[k].reg)
            /\ Len(post) = Cardinality({k \in 1..Len(pre) : CallsNext(links[k].reg)})
            /\ \A k \in 1..Len(post) : post[k].who = links[Len(post) + 1 - k].reg.name
            /\ \A h \in HandlerEvents, i \in DOMAIN trace :
                  /\ trace[i].ev = "pre" => i < h
                  /\ trace[i].ev = "post" => h < i

\* Three different middlewares registered in one Use call all ran around the
\* route handler.
C5_Witness ==
    /\ req.kind = "router"
    /\ Len(routers[1].mws) = 3
    /\ \A j, k \in 1..3 : j # k => routers[1].mws[j].reg # routers[1].mws[k].reg
    /\ routers[1].mws[1].ehAtReg = routers[1].mws[3].ehAtReg
    /\ Len(SelectSeq(trace, IsPost)) = 3
    /\ HandlerEvents # {}

\* C6: beneath a middleware that returns an error without calling next nothing
\* runs, no later middleware and no route handler, and the ErrorHandler of the
\* router is called with that middleware's error, once.
C6_ShortCircuit ==
    \A i \in DOMAIN trace :
        (trace[i].ev = "pre" /\ ~CallsNext(MwOf(trace[i].who))) =>
            /\ \A j \in DOMAIN trace : j > i => trace[j].ev \notin {"pre", "handler"}
            /\ i + 2 <= Len(trace)
            /\ trace[i + 1].ev = "return" /\ trace[i + 1].err = MwErr(trace[i].who)
            /\ i + 2 \in ErrEvents
            /\ trace[i + 2].err = MwErr(trace[i].who)
            /\ trace[i + 2].who = routers[trace[i].by].errHandler
            /\ Cardinality({j \in ErrEvents : trace[j].err = MwErr(trace[i].who)}) = 1

\* A failing middleware above another middleware and a route cut the chain.
C6_Witness ==
    /\ req.kind = "router"
    /\ routers[1].routes # {}
    /\ \E i \in DOMAIN trace :
          /\ trace[i].ev = "pre" /\ ~CallsNext(MwOf(trace[i].who))
          /\ Len(SelectSeq(trace, IsPre)) < Len(routers[1].mws)
    /\ HandlerEvents = {}

----------------------------------------------------------------------------
\* The default ErrorHandler

NoOverride ==
    /\ routers # <<>>
    /\ \A i \in DOMAIN newOpts : newOpts[i].kind # "WithErrorHandler"
    /\ \A r \in Ids : routers[r].sets = 0

\* C8, as first stated: without any override every failed dispatch is answered
\* with status 500 and a body that is the error's message and a newline.
C8_FailedDispatchIs500 ==
    (NoOverride /\ req.kind = "router" /\ ErrEvents # {}) =>
        LET first == CHOOSE i \in ErrEvents : \A j \in ErrEvents : i <= j
        IN  /\ resp.status = 500
            /\ resp.body = <<trace[first].err, "\n">>

\* C8, amended: without any override every call of the ErrorHandler appends the error's
\* message and a newline to the body, and the status is 500 when nothing was
\* written to the response before the first such call.
C8_DefaultErrorHandler ==
    (NoOverride /\ req.kind = "router") =>
        \A i \in ErrEvents :
            /\ trace[i].who = defaultErrorHandler
            /\ Len(resp.body) >= trace[i].at + 2
            /\ resp.body[trace[i].at + 1] = trace[i].err
            /\ resp.body[trace[i].at + 2] = "\n"
            /\ (\A j \in Writers : i <= j) => resp.status = 500

\* A handler that wrote nothing failed and the default ErrorHandler answered.
C8_Witness ==
    /\ NoOverride /\ req.kind = "router"
    /\ Cardinality(ErrEvents) = 1
    /\ resp.status = 500
    /\ \E i \in ErrEvents : resp.body = <<trace[i].err, "\n">>

----------------------------------------------------------------------------
\* New and its options

OptIdx(kind) == {i \in DOMAIN newOpts : newOpts[i].kind = kind}
LastOpt(kind, default) ==
    IF OptIdx(kind) = {} THEN default
    ELSE newOpts[CHOOSE i \in OptIdx(kind) : \A j \in OptIdx(kind) : j <= i].val

\* C9: New invokes one construction strategy, the one set by the last
\* WithRouterBuilder option (the default without one), and keeps it and the
\* ErrorHandler of the last WithErrorHandler option; a strategy that a later
\* option replaced is never invoked, by New or by a sub-scope.
C9_OptionsBeforeBuild ==
    routers # <<>> =>
        /\ Len(builderCalls) = Len(routers)
        /\ builderCalls[1] = LastOpt("WithRouterBuilder", defaultRouterBuilder)
        /\ routers[1].builtBy = LastOpt("WithRouterBuilder", defaultRouterBuilder)
        /\ routers[1].routerBuilder = LastOpt("WithRouterBuilder", defaultRouterBuilder)
        /\ routers[1].sets = 0 =>
              routers[1].errHandler = LastOpt("WithErrorHandler", defaultErrorHandler)
        /\ \A i \in OptIdx("WithRouterBuilder"), k \in DOMAIN builderCalls :
              newOpts[i].val # LastOpt("WithRouterBuilder", defaultRouterBuilder)
                  => builderCalls[k] # newOpts[i].val

\* New was given two different construction strategies, the last option being
\* the second, and a sub-scope was built afterwards.
C9_Witness ==
    /\ routers # <<>>
    /\ \E i, j \in OptIdx("WithRouterBuilder") : i < j /\ newOpts[i].val # newOpts[j].val
    /\ routers[1].builtBy = newOpts[Len(newOpts)].val
    /\ Len(routers) > 1

----------------------------------------------------------------------------
\* Registration operations

\* The HTTP method each chu operation stands for.
OpMethod(via, arg) ==
    CASE via = "Get" -> "GET"
      [] via = "Post" -> "POST"
      [] via = "Put" -> "PUT"
      [] via = "Delete" -> "DELETE"
      [] via = "Patch" -> "PATCH"
      [] via = "Head" -> "HEAD"
      [] via = "Options" -> "OPTIONS"
      [] via = "Connect" -> "CONNECT"
      [] via = "Trace" -> "TRACE"
      [] via = "Method" -> arg
      [] OTHER -> via

\* C10: every registration reaches the underlying router under the method (or
\* fallback) of the operation that made it, with the pattern it was given and
\* the handler adapted by the registering wrapper; a request of method M to a
\* pattern runs the Handler registered for M there (else the fallback), and
\* its error reaches the wrapper's ErrorHandler.
C10_Delegation ==
    /\ \A r \in Ids :
          /\ \A rt \in routers[r].routes :
                /\ rt.method = OpMethod(rt.via, rt.arg)
                /\ rt.pattern = rt.given
                /\ rt.owner = r
          /\ routers[r].notFound.owner \in {0, r}
          /\ routers[r].notFound.owner = r => routers[r].notFound.via = "NotFound"
          /\ routers[r].methodNotAllowed.owner \in {0, r}
          /\ routers[r].methodNotAllowed.owner = r
                => routers[r].methodNotAllowed.via = "MethodNotAllowed"
    /\ (req.kind = "router" /\ Len(req.path) = 1 /\ routers[1].mounts = <<>>) =>
          LET w == routers[1]
              forM == {rt \in w.routes :
                          OpMethod(rt.via, rt.arg) = req.method /\ rt.given = req.path[1]}
              atP == {rt \in w.routes : rt.given = req.path[1]}
              ran == {trace[i].who : i \in HandlerEvents}
          IN  /\ forM # {} => ran = {rt.h.id : rt \in forM} /\ Cardinality(forM) = 1
              /\ (forM = {} /\ atP # {}) =>
                    ran = (IF w.methodNotAllowed.owner # 0
                           THEN {w.methodNotAllowed.h.id} ELSE {})
              /\ (atP = {} /\ w.routes # {}) =>
                    ran = (IF w.notFound.owner # 0 THEN {w.notFound.h.id} ELSE {})
              /\ \A i \in HandlerEvents :
                    trace[i].err # NoErr =>
                        /\ i + 1 \in ErrEvents
                        /\ trace[i + 1].err = trace[i].err
                        /\ trace[i + 1].who = w.errHandler

\* The same pattern holds a PUT and a POST route; a PUT request ran the
\* Handler given to Put, it failed and the ErrorHandler was called.
C10_Witness ==
    /\ req.kind = "router" /\ req.method = "PUT"
    /\ \E rt \in routers[1].routes, other \in routers[1].routes :
          /\ rt.via = "Put" /\ rt.given = req.path[1]
          /\ other.via = "Post" /\ other.given = req.path[1] /\ other.h # rt.h
          /\ \E i \in HandlerEvents : trace[i].who = rt.h.id /\ i + 1 \in ErrEvents

----------------------------------------------------------------------------
\* Adapters for conventional handlers and middleware

EventsOf(kinds) == {i \in DOMAIN trace : trace[i].ev \in kinds}
AnyHandlerOf(id) ==
    CHOOSE h \in Handlers \cup {StandardHandler(s) : s \in StdHandlers} : h.id = id

\* The (w, r) a conventional middleware of each kind hands to next, given the
\* (w, r) it was called with.
Forwarded(m, wr) ==
    [w   |-> IF m.kind = "wrap" THEN wr.w \o <<m.name>> ELSE wr.w,
     ctx |-> IF m.kind = "forwardCtx" THEN wr.ctx \cup {"v"} ELSE wr.ctx]

\* C11: the Handler AdaptMiddleware(m)(next) calls m with the writer and the
\* request it was given; when m forwards once, next runs once, with the writer
\* and the request m forwarded, and the Handler returns the error next
\* returned; when m does not forward, next does not run and the Handler
\* returns nil.  In a chain the link returns what its call of next returned.
C11_AdaptMiddleware ==
    /\ req.kind = "AdaptMiddleware" =>
          LET m == StdMwOf(req.mw)
              ret == trace[Len(trace)]
              calls == EventsOf({"handler"})
          IN  /\ trace[1].ev = "stdmw" /\ trace[1].who = req.mw
              /\ trace[1].w = Incoming.w /\ trace[1].rctx = Incoming.ctx
              /\ ret.ev = "return"
              /\ IF m.kind # "block"
                 THEN /\ calls = {2}
                      /\ trace[2].who = req.h
                      /\ trace[2].w = Forwarded(m, Incoming).w
                      /\ trace[2].rctx = Forwarded(m, Incoming).ctx
                      /\ ret.err = trace[2].err
                      /\ ret.err = AnyHandlerOf(req.h).err
                 ELSE /\ calls = {}
                      /\ ret.err = NoErr
    /\ req.kind = "router" =>
          \A i \in EventsOf({"stdmw"}) :
              /\ trace[i - 1].ev = "pre" /\ trace[i - 1].who = trace[i].who
              /\ trace[i].w = trace[i - 1].w /\ trace[i].rctx = trace[i - 1].rctx
              /\ StdMwOf(trace[i].who).kind = "block" =>
                    /\ trace[i + 1].ev = "return" /\ trace[i + 1].who = trace[i].who
                    /\ trace[i + 1].err = NoErr
              /\ StdMwOf(trace[i].who).kind # "block" =>
                    \E j \in EventsOf({"next"}) :
                        /\ j > i /\ trace[j].who = trace[i].who
                        /\ trace[j].w = Forwarded(StdMwOf(trace[i].who), trace[i - 1]).w
                        /\ trace[j].rctx
                             = Forwarded(StdMwOf(trace[i].who),
                                         [w |-> trace[i].w, ctx |-> trace[i].rctx]).ctx
                        /\ trace[j + 2].ev = "return" /\ trace[j + 2].who = trace[i].who
                        /\ trace[j + 2].err = trace[j].err

\* A conventional middleware that attaches a context value forwarded to a
\* failing Handler: the Handler ran with that request and its error came back.
C11_Witness ==
    /\ req.kind = "AdaptMiddleware"
    /\ StdMwOf(req.mw).kind = "forwardCtx"
    /\ EventsOf({"handler"}) = {2}
    /\ "v" \in trace[2].rctx
    /\ trace[2].err # NoErr
    /\ trace[Len(trace)].err = trace[2].err

\* Calls of a Handler made by StandardHandler.
StdWrapped == {i \in EventsOf({"handler"}) : trace[i].who \in StdHandlers}

\* C12: the Handler StandardHandler(h) runs h once, with the writer and the
\* request it was called with, and returns nil whatever h answered, so the
\* handler adapt or AdaptHandler makes of it does not call the ErrorHandler.
C12_StandardHandler ==
    /\ \A i \in StdWrapped :
          /\ trace[i].err = NoErr
          /\ i + 1 \in EventsOf({"std"})
          /\ trace[i + 1].who = trace[i].who
          /\ trace[i + 1].w = trace[i].w
          /\ trace[i + 1].rctx = trace[i].rctx
          /\ i + 2 \notin EventsOf({"std", "errHandler"})
    /\ (req.kind = "AdaptHandler" /\ req.h \in StdHandlers) =>
          /\ Len(trace) = 2 /\ StdWrapped = {1}
          /\ resp = [status |-> IF req.h = "s2" THEN 500 ELSE 200, body |-> <<req.h>>]
    /\ (req.kind = "router" /\ StdWrapped # {} /\ routers[1].mws = <<>>) =>
          ErrEvents = {}

\* A conventional handler that answers 500 was wrapped and served through
\* AdaptHandler with a custom ErrorHandler, which was not called.
C12_Witness ==
    /\ req.kind = "AdaptHandler" /\ req.h = "s2" /\ req.eh \in CustomErrorHandlers
    /\ resp.status = 500
    /\ EventsOf({"std"}) = {2}
    /\ ErrEvents = {}

----------------------------------------------------------------------------
\* Mount

\* Calls of a mounted conventional handler.
MountServed == {i \in EventsOf({"std"}) : (i - 1) \notin StdWrapped}

Config(w) ==
    [errHandler |-> w.errHandler, routerBuilder |-> w.routerBuilder, builtBy |-> w.builtBy]

\* C13: Mount registers the conventional handler it was given as it is: a
\* request that reaches it runs that handler with the writer and request of
\* the router, without any Handler call and without a call of the ErrorHandler
\* after it; and a Mount call changes no wrapper's ErrorHandler or construction
\* strategy and creates no wrapper.
C13_MountUnwrapped ==
    /\ [](/\ \A r \in Ids : \A k \in DOMAIN routers[r].mounts :
                 routers[r].mounts[k].kind = "handler" =>
                     /\ routers[r].mounts[k].std \in StdHandlers
                     /\ routers[r].mounts[k].child = 0
          /\ \A i \in MountServed :
                 /\ \E k \in DOMAIN routers[1].mounts :
                        /\ routers[1].mounts[k].std = trace[i].who
                        /\ routers[1].mounts[k].pattern = req.path[1]
                 /\ EventsOf({"handler"}) = {}
                 /\ (i + 1) \notin ErrEvents
                 /\ routers[1].mws = <<>> => trace[i].w = Incoming.w
                 /\ routers[1].mws = <<>> => trace[i].rctx = Incoming.ctx)
    /\ [][NumStdMounts(routers') > NumStdMounts(routers) =>
              /\ Len(routers') = Len(routers)
              /\ \A r \in Ids : Config(routers'[r]) = Config(routers[r])
              /\ \A r \in Ids : routers'[r].routes = routers[r].routes]_vars

\* A router with a custom ErrorHandler served a request through a mounted
\* handler that answers 500 itself; the ErrorHandler was not called.
C13_Witness ==
    /\ req.kind = "router"
    /\ routers[1].errHandler \in CustomErrorHandlers
    /\ MountServed = {1} /\ Len(trace) = 1
    /\ trace[1].who = "s2"
    /\ resp.status = 500
    /\ ErrEvents = {}

----------------------------------------------------------------------------
\* Sub-scopes of sub-scopes, repeated groups

\* C14: every wrapper made by New, Group or Route has an ErrorHandler and a
\* construction strategy, so that Group and Route can be called on it.
C14_EveryWrapperCanBuild ==
    \A r \in Ids :
        /\ routers[r].errHandler \in ErrorHandlers
        /\ routers[r].builtBy \in Builders
        /\ routers[r].routerBuilder \in Builders

Returned(c) == \A k \in DOMAIN open : open[k].child # c
MountedIn(p, c) == \E k \in DOMAIN routers[p].mounts : routers[p].mounts[k].child = c

\* C18: after two Group calls on one parent have returned, nothing panicked
\* and both sub-routers are mounted in the parent.
C18_GroupTwice ==
    \A c \in SubScopes, d \in SubScopes :
        (/\ c # d
         /\ routers[c].parent = routers[d].parent
         /\ routers[c].form = "Group" /\ routers[d].form = "Group"
         /\ Returned(c) /\ Returned(d))
        => /\ ~panicked
           /\ MountedIn(routers[c].parent, c)
           /\ MountedIn(routers[d].parent, d)

----------------------------------------------------------------------------
\* The terminal Handler of a chain link

----------------------------------------------------------------------------
\* The context handed to a Handler

\* Calls of a Handler made by an adapter: the route or wrapped Handler (adapt,
\* AdaptHandler, AdaptMiddleware) and the Handler a transform returned (Use).
AdapterCalls == EventsOf({"handler", "pre"})

\* The values attached to the requests forwarded before position j: by a
\* conventional middleware under AdaptMiddleware, and by a transform that
\* replaced the request's context.
AttachedBefore(j) ==
    {"v" : i \in {k \in EventsOf({"stdmw"}) :
                     k < j /\ StdMwOf(trace[k].who).kind = "forwardCtx"}}
    \cup {"u" : i \in {k \in EventsOf({"pre"}) : k < j /\ trace[k].who = "F"}}

\* C17: every Handler an adapter calls gets as ctx the context of the request
\* it is called with; that context holds what the incoming request carried and
\* the values attached to the requests forwarded down to it (those of a
\* conventional middleware under AdaptMiddleware included) and nothing else,
\* whatever ctx the caller of an AdaptMiddleware Handler passed.
C17_ContextOfRequest ==
    \A j \in AdapterCalls :
        /\ trace[j].ctx = trace[j].rctx
        /\ trace[j].ctx = Incoming.ctx \cup AttachedBefore(j)

\* A conventional middleware attached a value to the request it forwarded and
\* AdaptMiddleware's caller passed another context: the Handler saw the value
\* of the middleware and the context of the forwarded request.
C17_Witness ==
    /\ req.kind = "AdaptMiddleware"
    /\ req.ctx # Incoming.ctx
    /\ \E j \in EventsOf({"handler"}) :
          /\ "v" \in trace[j].ctx
          /\ trace[j].ctx = trace[j].rctx
          /\ trace[j].ctx # req.ctx

----------------------------------------------------------------------------
\* Dispatches side by side

\* What dispatch d does when it is the only one: ServeHTTP run from its first
\* to its last call against the wrappers as they are.
Alone(d) ==
    ServeChi(1, flights[d].method, flights[d].path, NoFallback, Incoming, Start)

IsPrefix(s, u) == Len(s) <= Len(u) /\ s = SubSeq(u, 1, Len(s))

\* C16: no step of a dispatch changes a wrapper (its ErrorHandler, its
\* construction strategy, its underlying router), and whatever the other
\* dispatches did in between, each dispatch makes the calls it makes when
\* served alone, with the same ErrorHandler for each failure, and ends with the
\* same response.
C16_DispatchReadsOnly ==
    /\ [][flights' # flights => routers' = routers /\ builderCalls' = builderCalls]_vars
    /\ [](\A d \in DOMAIN flights :
             /\ IsPrefix(flights[d].st.trace, Alone(d).trace)
             /\ Done(flights[d]) => flights[d].st = Alone(d))

\* Two dispatches of a failing route under a failing middleware, one finished
\* with two ErrorHandler calls while the other was between its two.
C16_Witness ==
    \E d \in DOMAIN flights, e \in DOMAIN flights :
        /\ d # e
        /\ Done(flights[d])
        /\ Cardinality({i \in DOMAIN flights[d].st.trace :
                           flights[d].st.trace[i].ev = "errHandler"}) = 2
        /\ flights[e].pc = "report" /\ flights[e].i = 0
        /\ \E i \in DOMAIN flights[e].st.trace : flights[e].st.trace[i].ev = "errHandler"
        /\ routers[1].errHandler \in CustomErrorHandlers

====
